---------------------------- MODULE Spec2Model ----------------------------
(***************************************************************************)
(* Model of the address / geocoding core of backend/app.py:                *)
(*   geocode_address, calculate_distance, is_within_service_area,          *)
(*   register (POST) and edit_profile (POST), over the users table.        *)
(***************************************************************************)
EXTENDS Integers, Sequences, FiniteSets, TLC

(***************************************************************************)
(* Python / JSON values.  Every value carries a tag so that values of      *)
(* different Python types can be compared.                                 *)
(***************************************************************************)
PyNone == [t |-> "none"]
Num(n) == [t |-> "num", v |-> n]
Str(s) == [t |-> "str", v |-> s]
Arr(s) == [t |-> "arr", v |-> s]
Obj(f) == [t |-> "obj", v |-> f]
\* an exception travelling up the call stack
Raise == [t |-> "raise"]

\* Python truthiness, as used by `if data['features']:` and `not lat`
Truthy(x) ==
    CASE x.t = "none" -> FALSE
      [] x.t = "num"  -> x.v # 0
      [] x.t = "str"  -> x.v # ""
      [] x.t = "arr"  -> Len(x.v) > 0
      [] x.t = "obj"  -> DOMAIN x.v # {}
      [] OTHER        -> TRUE

\* x[key] for a string key: only a dict that holds the key answers,
\* everything else raises (KeyError / TypeError)
GetKey(x, key) ==
    IF x.t = "raise" THEN Raise
    ELSE IF x.t = "obj" /\ key \in DOMAIN x.v THEN x.v[key]
    ELSE Raise

\* x[i] for a 0-based integer index: a list answers when it is long enough;
\* a one-character string answers itself at index 0; everything else raises
\* (IndexError / KeyError / TypeError)
GetIndex(x, i) ==
    IF x.t = "raise" THEN Raise
    ELSE IF x.t = "arr" /\ i < Len(x.v) THEN x.v[i + 1]
    ELSE IF x.t = "str" /\ i = 0 /\ Len(x.v) = 1 THEN x
    ELSE Raise

(***************************************************************************)
(* The world the provider answers about: every address <<street, city,     *)
(* zip>> has its own coordinate; the street "s0" lies on the equator in    *)
(* city "c1" and on the prime meridian in city "c2".                       *)
(***************************************************************************)
Streets == {"s0", "s1", "s2"}
Cities  == {"c1", "c2"}
Zips    == {"z1"}

StreetNo(street) == CASE street = "s0" -> 0 [] street = "s1" -> 1 [] OTHER -> 2
CityNo(city)     == CASE city = "c1" -> 1 [] OTHER -> 2

WorldLat(q) ==
    IF q[1] = "s0" /\ q[2] = "c1" THEN 0
    ELSE 4 + 2 * StreetNo(q[1]) + CityNo(q[2])
WorldLng(q) ==
    IF q[1] = "s0" /\ q[2] = "c2" THEN 0
    ELSE 2 + StreetNo(q[1]) + CityNo(q[2])

\* a GeoJSON feature: coordinates are [longitude, latitude]
Feature(coords) ==
    Obj([geometry |-> Obj([coordinates |-> coords])])
Body(data) == [k |-> "json", data |-> data]

\* outcomes of requests.get(...) followed by response.json()
RespConnectionError == [k |-> "exc", what |-> "ConnectionError"]
RespTimeout         == [k |-> "exc", what |-> "Timeout"]
RespNotJson         == [k |-> "notjson"]
RespJsonList        == Body(Arr(<<>>))
RespNoFeaturesKey   == Body(Obj([message |-> Str("Not Authorized")]))
RespFeaturesNull    == Body(Obj([features |-> PyNone]))
RespFeaturesString  == Body(Obj([features |-> Str("x")]))
RespZeroCandidates  == Body(Obj([features |-> Arr(<<>>)]))
RespNoGeometry      == Body(Obj([features |-> Arr(<<Obj([id |-> Str("p")])>>)]))
RespNoCoordinates   ==
    Body(Obj([features |-> Arr(<<Obj([geometry |-> Obj([type |-> Str("P")])])>>)]))
RespShortCoordinates == Body(Obj([features |-> Arr(<<Feature(Arr(<<Num(3)>>))>>)]))
RespNullCoordinates  == Body(Obj([features |-> Arr(<<Feature(PyNone)>>)]))
RespCandidates(lat, lng) ==
    Body(Obj([features |-> Arr(<<Feature(Arr(<<Num(lng), Num(lat)>>))>>)]))
\* a candidate whose latitude is JSON null
RespNullLatitude(lng) ==
    Body(Obj([features |-> Arr(<<Feature(Arr(<<Num(lng), PyNone>>))>>)]))

\* responses that carry no candidate with a coordinate pair
FailureResponses ==
    { RespConnectionError, RespTimeout, RespNotJson, RespJsonList,
      RespNoFeaturesKey, RespFeaturesNull, RespFeaturesString,
      RespZeroCandidates, RespNoGeometry, RespNoCoordinates,
      RespShortCoordinates, RespNullCoordinates }

\* what the provider may answer to a query <<street, city, zip>>
ProviderResponses(q) ==
    FailureResponses
      \cup { RespCandidates(WorldLat(q), WorldLng(q)),
             RespNullLatitude(WorldLng(q)) }

(***************************************************************************)
(* geocode_address                                                         *)
(***************************************************************************)
Returned(lat, lng) == [t |-> "ret", lat |-> lat, lng |-> lng]
Unresolved == Returned(PyNone, PyNone)

\* the body of the try block
GeocodeTry(resp) ==
    IF resp.k = "exc" THEN Raise
    ELSE IF resp.k = "notjson" THEN Raise
    ELSE LET data     == resp.data
             features == GetKey(data, "features")
         IN  IF features.t = "raise" THEN Raise
             ELSE IF Truthy(features)
             THEN LET coordinates ==
                          GetKey(GetKey(GetIndex(features, 0), "geometry"),
                                 "coordinates")
                      longitude == GetIndex(coordinates, 0)
                      latitude  == GetIndex(coordinates, 1)
                  IN  IF longitude.t = "raise" \/ latitude.t = "raise"
                      THEN Raise
                      ELSE Returned(latitude, longitude)
             ELSE Unresolved

\* a geocode_address without its except clause
GeocodeNoExcept(resp) == GeocodeTry(resp)

\* except Exception: return None, None
geocode_address(resp) ==
    LET r == GeocodeTry(resp) IN IF r.t = "raise" THEN Unresolved ELSE r

(***************************************************************************)
(* calculate_distance and is_within_service_area                           *)
(***************************************************************************)
\* geopy's geodesic(...).km on whole-degree points, in whole kilometres: the
\* plane approximation of the geodesic, one degree being 111 km
KmPerDegree == 111

Abs(x) == IF x < 0 THEN -x ELSE x
ISqrt(n) == CHOOSE r \in 0..n : r * r <= n /\ (r + 1) * (r + 1) > n

calculate_distance(lat1, lon1, lat2, lon2) ==
    ISqrt(KmPerDegree * KmPerDegree
            * (Abs(lat1 - lat2) * Abs(lat1 - lat2)
                 + Abs(lon1 - lon2) * Abs(lon1 - lon2)))

\* the process environment: a variable is unset or holds a number
Unset == [set |-> FALSE]
Set(v) == [set |-> TRUE, v |-> v]

DefaultCenterLat == 0
DefaultCenterLng == 0
DefaultRadiusKm  == 50

\* float(os.getenv(name, default))
getenv(env, name, default) == IF env[name].set THEN env[name].v ELSE default

\* a boundary that is left outside
IsWithinStrict(env, lat, lng) ==
    calculate_distance(
        getenv(env, "SERVICE_AREA_CENTER_LAT", DefaultCenterLat),
        getenv(env, "SERVICE_AREA_CENTER_LNG", DefaultCenterLng), lat, lng)
      < getenv(env, "SERVICE_AREA_RADIUS_KM", DefaultRadiusKm)

is_within_service_area(env, lat, lng) ==
    LET center_lat == getenv(env, "SERVICE_AREA_CENTER_LAT", DefaultCenterLat)
        center_lng == getenv(env, "SERVICE_AREA_CENTER_LNG", DefaultCenterLng)
        max_radius == getenv(env, "SERVICE_AREA_RADIUS_KM", DefaultRadiusKm)
        distance   == calculate_distance(center_lat, center_lng, lat, lng)
    IN  distance <= max_radius

(***************************************************************************)
(* The users table and the forms                                           *)
(***************************************************************************)
Emails == {"a@x.ng", "b@x.ng"}
Roles  == {"employer", "job_seeker"}
\* Python None in a string column
NoneStr == "<None>"

\* the values a browser submits for the fields that are not the address
Profiles ==
    { [full_name |-> "n1", phone |-> "p1",
       company_name |-> "k1", company_description |-> "d1"],
      [full_name |-> "n2", phone |-> "p2",
       company_name |-> "k2", company_description |-> "d2"] }

Addresses == Streets \X Cities \X Zips

EditForms ==
    { [full_name |-> p.full_name, phone |-> p.phone,
       address |-> a[1], city |-> a[2], zip_code |-> a[3],
       company_name |-> p.company_name,
       company_description |-> p.company_description]
      : p \in Profiles, a \in Addresses }

RegisterForm(e, pw, r, f) ==
    [email |-> e, password |-> pw[1], confirm_password |-> pw[2],
     role |-> r, full_name |-> f.full_name, phone |-> f.phone,
     address |-> f.address, city |-> f.city, zip_code |-> f.zip_code,
     company_name |-> f.company_name,
     company_description |-> f.company_description]

\* every form with an acceptable password, and for each email the forms
\* whose password entries are refused
RegisterForms ==
    { RegisterForm(e, <<"longpassword", "longpassword">>, r, f)
        : e \in Emails, r \in Roles, f \in EditForms }
    \cup
    { RegisterForm(e, pw, "job_seeker", CHOOSE f \in EditForms : TRUE)
        : e \in Emails,
          pw \in {<<"short", "short">>, <<"longpassword", "short">>} }

Query(form) == <<form.address, form.city, form.zip_code>>
StoredAddress(row) == <<row.address, row.city, row.zip_code>>

Columns ==
    { "email", "password_hash", "role", "full_name", "phone", "address",
      "city", "zip_code", "latitude", "longitude", "company_name",
      "company_description" }

FlashMismatch   == "Passwords do not match!"
FlashShort      == "Password must be at least 8 characters long!"
FlashTaken      == "Email already registered!"
FlashNoAddress  == "Could not verify address. Please check and try again."
FlashNoNewAddress == "Could not verify new address. Please check and try again."
FlashRegistered == "Registration successful! Please log in."
FlashUpdated    == "Profile updated successfully!"
\* an exception that leaves the view: Flask answers 500
InternalError   == "500 Internal Server Error"

(***************************************************************************)
(* The SQLAlchemy session.  An object loaded from a row is changed in      *)
(* memory; commit() writes the columns whose value differs from the loaded *)
(* one; a request that returns without commit() leaves the table as it is  *)
(* (the session is removed when the request ends).                         *)
(***************************************************************************)
session_commit(db, e, loaded, cu) ==
    [db EXCEPT ![e] =
        [c \in Columns |-> IF cu[c] # loaded[c] THEN cu[c] ELSE db[e][c]]]

\* db.session.add(user); db.session.commit()
session_add(db, user) ==
    [e \in DOMAIN db \cup {user.email} |->
        IF e = user.email THEN user ELSE db[e]]

\* a check that lets every answer through
CoordinateMissingNever(lat, lng) == FALSE

\* `not lat or not lng`
CoordinateMissing(lat, lng) == ~Truthy(lat) \/ ~Truthy(lng)

(***************************************************************************)
(* register (POST)                                                         *)
(***************************************************************************)
NewUser(form, geo) ==
    [email |-> form.email,
     password_hash |-> <<"hash", form.password>>,
     role |-> form.role,
     full_name |-> form.full_name,
     phone |-> form.phone,
     address |-> form.address,
     city |-> form.city,
     zip_code |-> form.zip_code,
     latitude |-> geo.lat,
     longitude |-> geo.lng,
     company_name |->
        IF form.role = "employer" THEN form.company_name ELSE NoneStr,
     company_description |->
        IF form.role = "employer" THEN form.company_description ELSE NoneStr]

\* a rejection that adds the user all the same
RegisterRejectedAdds(db, form, geo) == session_add(db, NewUser(form, geo))

\* the table is left alone when the address could not be verified
RegisterRejected(db, form, geo) == db

\* the checks made before the address is looked up: the message flashed by
\* the first that fails, "" when all pass
register_check(db, form) ==
    IF form.password # form.confirm_password THEN FlashMismatch
    ELSE IF Len(form.password) < 8 THEN FlashShort
    ELSE IF form.email \in DOMAIN db THEN FlashTaken
    ELSE ""

\* the rest of the handler, from the answer of geocode_address on: the
\* table, the flashed message, the lookups made and their answer
register_finish(db, form, geo) ==
    LET looked == <<Query(form)>> IN
    IF geo.t = "raise"
    THEN [db |-> db, lookups |-> looked, geo |-> geo, flash |-> InternalError]
    ELSE IF CoordinateMissing(geo.lat, geo.lng)
    THEN [db |-> RegisterRejected(db, form, geo), lookups |-> looked,
          geo |-> geo, flash |-> FlashNoAddress]
    ELSE [db |-> session_add(db, NewUser(form, geo)),
          lookups |-> looked, geo |-> geo, flash |-> FlashRegistered]

(***************************************************************************)
(* edit_profile (POST)                                                     *)
(***************************************************************************)
\* a comparison that always sees a change
AddressChangedAlways(form, cu) == TRUE

address_changed(form, cu) ==
    \/ form.address # cu.address
    \/ form.city # cu.city
    \/ form.zip_code # cu.zip_code

\* current_user.full_name = ...; current_user.phone = ...
SetContact(cu, form) ==
    [cu EXCEPT !.full_name = form.full_name, !.phone = form.phone]

\* an update that forgets the coordinates
SetAddressOnly(cu, form, geo) ==
    [cu EXCEPT !.address = form.address, !.city = form.city,
               !.zip_code = form.zip_code]

\* Update address and coordinates
SetAddress(cu, form, geo) ==
    [cu EXCEPT !.address = form.address, !.city = form.city,
               !.zip_code = form.zip_code,
               !.latitude = geo.lat, !.longitude = geo.lng]

SetCompany(cu, form) ==
    IF cu.role = "employer"
    THEN [cu EXCEPT !.company_name = form.company_name,
                    !.company_description = form.company_description]
    ELSE cu

\* a rejection that commits what was set before the lookup
EditRejectedCommits(db, e, loaded, cu) == session_commit(db, e, loaded, cu)

\* return redirect(...) without commit: the changed object is dropped
EditRejected(db, e, loaded, cu) == db

\* the tail of the handler, from the answer of geocode_address on; `loaded`
\* is the row current_user was loaded from
edit_finish(db, e, loaded, form, changed, geo) ==
    LET cu1 == SetContact(loaded, form)
        looked == IF changed THEN <<Query(form)>> ELSE <<>>
    IN  IF changed /\ geo.t = "raise"
        THEN [db |-> db, lookups |-> looked, geo |-> geo,
              flash |-> InternalError]
        ELSE IF changed /\ CoordinateMissing(geo.lat, geo.lng)
        THEN [db |-> EditRejected(db, e, loaded, cu1), lookups |-> looked,
              geo |-> geo, flash |-> FlashNoNewAddress]
        ELSE LET cu2 == IF changed THEN SetAddress(cu1, form, geo) ELSE cu1
                 cu3 == SetCompany(cu2, form)
             IN  [db |-> session_commit(db, e, loaded, cu3),
                  lookups |-> looked,
                  geo |-> IF changed THEN geo ELSE Unresolved,
                  flash |-> FlashUpdated]

(***************************************************************************)
(* State                                                                   *)
(***************************************************************************)
VARIABLES
    users,   \* the users table: email -> row
    last,    \* the attempt that ended last, as its client and the provider saw it
    probe,   \* one call of a helper function: its arguments and its result
    reqs     \* the requests being served side by side, each at its own step

vars == <<users, last, probe, reqs>>

NoProbe == [fn |-> "none"]

\* how many requests are served side by side
NumRequests == 2
Requests == 1..NumRequests
Idle == [pc |-> "idle"]
NoRequests == [r \in Requests |-> Idle]

NoAttempt == [op |-> "none"]

\* what geocode_address can return for a query, over the provider's answers
GeocodeResults(q) == { geocode_address(resp) : resp \in ProviderResponses(q) }

Attempt(op, e, r, same, other) ==
    [op |-> op, email |-> e, lookups |-> r.lookups, geo |-> r.geo,
     flash |-> r.flash, same |-> same, other |-> other]

Init ==
    /\ users = <<>>
    /\ last = NoAttempt
    /\ probe = NoProbe
    /\ reqs = NoRequests

Register ==
    \E form \in RegisterForms :
      LET early == register_check(users, form) IN
      IF early # ""
      THEN /\ users' = users
           /\ last' = Attempt("register", form.email,
                              [lookups |-> <<>>, geo |-> Unresolved,
                               flash |-> early], FALSE, FALSE)
           /\ UNCHANGED <<probe, reqs>>
      ELSE \E geo \in GeocodeResults(Query(form)) :
             LET r == register_finish(users, form, geo) IN
             /\ users' = r.db
             /\ last' = Attempt("register", form.email, r, FALSE, FALSE)
             /\ UNCHANGED <<probe, reqs>>

\* login_required: current_user is a stored user
EditProfile ==
    \E e \in DOMAIN users :
      \E form \in EditForms :
        LET loaded  == users[e]
            changed == address_changed(form, SetContact(loaded, form))
        IN  \E geo \in (IF changed THEN GeocodeResults(Query(form))
                                   ELSE {Unresolved}) :
              LET r == edit_finish(users, e, loaded, form, changed, geo) IN
              /\ users' = r.db
              /\ last' = Attempt("edit", e, r,
                                 Query(form) = StoredAddress(loaded),
                                 form.full_name # loaded.full_name)
              /\ UNCHANGED <<probe, reqs>>

Next == Register \/ EditProfile

Spec == Init /\ [][Next]_vars

(***************************************************************************)
(* Properties of the handlers (specification Spec)                         *)
(***************************************************************************)
Coordinate(row) == <<row.latitude, row.longitude>>

\* the last attempt looked an address up
Looked(a) == a.op \in {"register", "edit"} /\ a.lookups # <<>>

\* C1: a profile edit whose address differs from the stored one and whose
\* lookup came back unresolved leaves the whole users table as it was:
\* address, coordinate and every other submitted field.
C1_RejectedEditChangesNothing ==
    [][ (last'.op = "edit" /\ ~last'.same /\ last'.geo = Unresolved)
          => users' = users ]_vars

\* a rejected edit of an employer that also submitted another full name
C1_Witness ==
    /\ last.op = "edit" /\ ~last.same /\ Looked(last)
    /\ last.geo = Unresolved /\ last.other
    /\ last.flash = FlashNoNewAddress
    /\ users[last.email].role = "employer"

\* C2: a profile edit that submits the stored street, city and zip makes no
\* lookup and leaves the stored latitude and longitude as they were.
C2_SameAddressNoLookup ==
    [][ (last'.op = "edit" /\ last'.same)
          => /\ last'.lookups = <<>>
             /\ Coordinate(users'[last'.email]) = Coordinate(users[last'.email])
      ]_vars

\* an accepted edit with the stored address and another full name
C2_Witness ==
    /\ last.op = "edit" /\ last.same /\ last.other
    /\ last.flash = FlashUpdated

\* C3: a registration whose lookup came back unresolved adds no user (the
\* table is unchanged, the email is not found) and flashes the
\* could-not-verify-address message.
C3_UnresolvedRegistrationAddsNothing ==
    [][ (last'.op = "register" /\ last'.lookups # <<>>
           /\ last'.geo = Unresolved)
          => /\ users' = users
             /\ last'.email \notin DOMAIN users'
             /\ last'.flash = FlashNoAddress ]_vars

\* a rejected registration while another user is stored
C3_Witness ==
    /\ last.op = "register" /\ Looked(last) /\ last.geo = Unresolved
    /\ last.flash = FlashNoAddress
    /\ DOMAIN users # {}

ValidCoordinate(geo) ==
    /\ geo.t = "ret" /\ geo.lat.t = "num" /\ geo.lng.t = "num"
    /\ geo.lat.v >= -90 /\ geo.lat.v <= 90
    /\ geo.lng.v >= -180 /\ geo.lng.v <= 180

\* C5 (as claimed): whenever a lookup returns a valid coordinate, zero
\* latitude or longitude included, the attempt is accepted and the user is
\* stored with the submitted address and that coordinate.
C5_ResolvedIsCommitted ==
    [][ (Looked(last') /\ ValidCoordinate(last'.geo))
          => /\ last'.flash \in {FlashRegistered, FlashUpdated}
             /\ last'.email \in DOMAIN users'
             /\ StoredAddress(users'[last'.email]) = last'.lookups[1]
             /\ Coordinate(users'[last'.email])
                  = <<last'.geo.lat, last'.geo.lng>> ]_vars

(***************************************************************************)
(* geocode_address on its own (specification GeoSpec): the provider's      *)
(* answer to a query is drawn first, then the function is applied to it.   *)
(***************************************************************************)
Pending == [t |-> "pending"]

GeoInit ==
    /\ users = <<>>
    /\ last = NoAttempt
    /\ reqs = NoRequests
    /\ probe \in UNION { { [fn |-> "geocode_address", query |-> q,
                             resp |-> resp, out |-> Pending]
                            : resp \in ProviderResponses(q) }
                          : q \in Addresses }

Geocode ==
    /\ probe.out = Pending
    /\ probe' = [probe EXCEPT !.out = geocode_address(probe.resp)]
    /\ UNCHANGED <<users, last, reqs>>

GeoNext == Geocode

GeoSpec == GeoInit /\ [][GeoNext]_vars

\* the provider's answer holds at least one candidate
HasCandidate(resp) ==
    /\ resp.k = "json"
    /\ resp.data.t = "obj"
    /\ "features" \in DOMAIN resp.data.v
    /\ resp.data.v["features"].t = "arr"
    /\ Len(resp.data.v["features"].v) >= 1

\* the [longitude, latitude] list of the first candidate
FirstCoordinates(resp) ==
    resp.data.v["features"].v[1].v["geometry"].v["coordinates"].v

Environments ==
    [ {"SERVICE_AREA_CENTER_LAT"} -> {Unset, Set(6)} ]
      \X [ {"SERVICE_AREA_CENTER_LNG"} -> {Unset, Set(3)} ]
      \X [ {"SERVICE_AREA_RADIUS_KM"} -> {Unset, Set(111), Set(200)} ]

Environ(t) == t[1] @@ t[2] @@ t[3]

PointLats == {0, 1, 6, 7}
PointLngs == {0, 3, 4}

AreaInit ==
    /\ users = <<>>
    /\ last = NoAttempt
    /\ reqs = NoRequests
    /\ probe \in { [fn |-> "is_within_service_area", env |-> Environ(t),
                    lat |-> lat, lng |-> lng, done |-> FALSE, out |-> FALSE]
                   : t \in Environments, lat \in PointLats, lng \in PointLngs }

IsWithinServiceArea ==
    /\ ~probe.done
    /\ probe' = [probe EXCEPT
                   !.done = TRUE,
                   !.out = is_within_service_area(probe.env, probe.lat,
                                                  probe.lng)]
    /\ UNCHANGED <<users, last, reqs>>

AreaNext == IsWithinServiceArea

AreaSpec == AreaInit /\ [][AreaNext]_vars

\* the centre and radius in force: the configured value, else 0, 0 and 50
CenterLat(env) ==
    IF env["SERVICE_AREA_CENTER_LAT"] = Unset THEN 0
    ELSE env["SERVICE_AREA_CENTER_LAT"].v
CenterLng(env) ==
    IF env["SERVICE_AREA_CENTER_LNG"] = Unset THEN 0
    ELSE env["SERVICE_AREA_CENTER_LNG"].v
RadiusKm(env) ==
    IF env["SERVICE_AREA_RADIUS_KM"] = Unset THEN 50
    ELSE env["SERVICE_AREA_RADIUS_KM"].v

\* C7: the answer is true exactly when the distance from the centre to the
\* point is at most the radius, the boundary included; an unset centre
\* coordinate is 0 and an unset radius 50 km.
C7_InclusiveServiceArea ==
    probe.done =>
        (probe.out <=>
           calculate_distance(CenterLat(probe.env), CenterLng(probe.env),
                              probe.lat, probe.lng) <= RadiusKm(probe.env))

\* a point exactly one radius away from the default centre is inside
C7_Witness ==
    /\ probe.done /\ probe.out
    /\ probe.env["SERVICE_AREA_CENTER_LAT"] = Unset
    /\ probe.env["SERVICE_AREA_CENTER_LNG"] = Unset
    /\ calculate_distance(0, 0, probe.lat, probe.lng) = RadiusKm(probe.env)

(***************************************************************************)
(* The handlers step by step (specification ConcSpec).  A request reads    *)
(* the table when it starts, waits for the provider while the other        *)
(* requests go on, and writes when it commits.  requests.get is called     *)
(* without a timeout: a request whose lookup is never answered has no step *)
(* to take.                                                                *)
(***************************************************************************)
FirstAddress == <<"s1", "c1", "z1">>
ConcAddresses == {"s1", "s2"} \X Cities \X Zips

ConcEditForms ==
    { f \in EditForms : Query(f) \in ConcAddresses }

ConcRegisterForms ==
    { f \in RegisterForms :
        /\ f.email = "b@x.ng" /\ f.role = "job_seeker"
        /\ f.password = f.confirm_password /\ Len(f.password) >= 8
        /\ f.full_name = "n1" /\ Query(f) = FirstAddress }

\* the employer a@x.ng has registered at FirstAddress
FirstUser ==
    NewUser(RegisterForm("a@x.ng", <<"longpassword", "longpassword">>,
                         "employer",
                         CHOOSE f \in EditForms :
                            Query(f) = FirstAddress /\ f.full_name = "n1"),
            geocode_address(RespCandidates(WorldLat(FirstAddress),
                                           WorldLng(FirstAddress))))

ConcInit ==
    /\ users = session_add(<<>>, FirstUser)
    /\ last = NoAttempt
    /\ probe = NoProbe
    /\ reqs = NoRequests

Ended(r, op, lookups, flash) ==
    [reqs EXCEPT ![r] = [pc |-> "done", op |-> op, lookups |-> lookups,
                         flash |-> flash]]

\* edit_profile up to the call of geocode_address
EditBegin(r) ==
    /\ reqs[r] = Idle
    /\ \E e \in DOMAIN users :
         \E form \in ConcEditForms :
           LET loaded  == users[e]
               changed == address_changed(form, SetContact(loaded, form))
           IN  reqs' = [reqs EXCEPT ![r] =
                          [pc |-> IF changed THEN "geocoding" ELSE "ready",
                           op |-> "edit", email |-> e, form |-> form,
                           loaded |-> loaded, changed |-> changed,
                           lookups |-> IF changed THEN <<Query(form)>>
                                                  ELSE <<>>,
                           geo |-> Unresolved]]
    /\ UNCHANGED <<users, last, probe>>

\* register up to the call of geocode_address
RegisterBegin(r) ==
    /\ reqs[r] = Idle
    /\ \E form \in ConcRegisterForms :
         LET early == register_check(users, form) IN
         reqs' = IF early # ""
                 THEN Ended(r, "register", <<>>, early)
                 ELSE [reqs EXCEPT ![r] =
                         [pc |-> "geocoding", op |-> "register",
                          email |-> form.email, form |-> form,
                          lookups |-> <<Query(form)>>, geo |-> Unresolved]]
    /\ UNCHANGED <<users, last, probe>>

\* requests.get returns or raises, and geocode_address returns
ProviderAnswers(r) ==
    /\ reqs[r].pc = "geocoding"
    /\ \E geo \in GeocodeResults(Query(reqs[r].form)) :
         reqs' = [reqs EXCEPT ![r].pc = "ready", ![r].geo = geo]
    /\ UNCHANGED <<users, last, probe>>

\* edit_profile from the answer of geocode_address to its return
EditFinish(r) ==
    /\ reqs[r].pc = "ready" /\ reqs[r].op = "edit"
    /\ LET q == reqs[r]
           res == edit_finish(users, q.email, q.loaded, q.form, q.changed,
                              q.geo)
       IN  /\ users' = res.db
           /\ reqs' = Ended(r, "edit", res.lookups, res.flash)
    /\ UNCHANGED <<last, probe>>

\* register from the answer of geocode_address to its return; the commit of
\* a second row with the same email breaks the unique constraint
RegisterFinish(r) ==
    /\ reqs[r].pc = "ready" /\ reqs[r].op = "register"
    /\ LET q == reqs[r]
           res == register_finish(users, q.form, q.geo)
       IN  IF q.form.email \in DOMAIN users /\ res.flash = FlashRegistered
           THEN /\ users' = users
                /\ reqs' = Ended(r, "register", res.lookups, InternalError)
           ELSE /\ users' = res.db
                /\ reqs' = Ended(r, "register", res.lookups, res.flash)
    /\ UNCHANGED <<last, probe>>

Step(r) ==
    \/ EditBegin(r)
    \/ RegisterBegin(r)
    \/ ProviderAnswers(r)
    \/ EditFinish(r)
    \/ RegisterFinish(r)

ConcNext == \E r \in Requests : Step(r)

\* a handler that has its answer runs on to its return; nothing makes the
\* provider answer
ConcSpec ==
    /\ ConcInit
    /\ [][ConcNext]_vars
    /\ \A r \in Requests : WF_vars(EditFinish(r) \/ RegisterFinish(r))

(***************************************************************************)
(* Properties of the step-by-step handlers (specification ConcSpec)        *)
(***************************************************************************)
InFlight(r) == reqs[r].pc \in {"geocoding", "ready"}

\* the three ways a profile edit ends
CommittedNoGeocode(q) == q.flash = FlashUpdated /\ q.lookups = <<>>
CommittedNewCoordinate(q) == q.flash = FlashUpdated /\ q.lookups # <<>>
Rejected(q) == q.flash = FlashNoNewAddress /\ q.lookups # <<>>

AddressColumns == {"address", "city", "zip_code", "latitude", "longitude"}

\* row e gets an address or coordinate column written in the step
AddressWritten(e) ==
    \/ e \notin DOMAIN users
    \/ \E c \in AddressColumns : users'[e][c] # users[e][c]

\* request r commits in the step, after its one lookup for the address of
\* its form has returned that address's coordinate
CommitsAfterLookup(r, e) ==
    /\ reqs[r].pc = "ready" /\ reqs'[r].pc = "done"
    /\ reqs[r].email = e
    /\ reqs[r].lookups = <<Query(reqs[r].form)>>
    /\ reqs[r].geo = Returned(Num(WorldLat(Query(reqs[r].form))),
                              Num(WorldLng(Query(reqs[r].form))))
    /\ \A c \in AddressColumns \ {"latitude", "longitude"} :
          (e \notin DOMAIN users \/ users'[e][c] # users[e][c])
             => users'[e][c] = reqs[r].form[c]
    /\ (e \notin DOMAIN users \/ users'[e].latitude # users[e].latitude)
          => users'[e].latitude = reqs[r].geo.lat
    /\ (e \notin DOMAIN users \/ users'[e].longitude # users[e].longitude)
          => users'[e].longitude = reqs[r].geo.lng

\* C8: an attempt makes at most one lookup, a profile edit only for an
\* address other than the one it read; a step that writes an address or a
\* coordinate is the commit of a request whose lookup for the address of its
\* form has returned resolved; a profile edit ends as exactly one of
\* committed without lookup, committed with a new coordinate, rejected.
C8_OneLookupBeforeCommit ==
    /\ [](\A r \in Requests :
            /\ reqs[r] # Idle => Len(reqs[r].lookups) <= 1
            /\ (InFlight(r) /\ reqs[r].op = "edit" /\ reqs[r].lookups # <<>>)
                  => reqs[r].lookups[1] # StoredAddress(reqs[r].loaded)
            /\ (reqs[r].pc = "done" /\ reqs[r].op = "edit")
                  => Cardinality({ k \in 1..3 :
                        \/ k = 1 /\ CommittedNoGeocode(reqs[r])
                        \/ k = 2 /\ CommittedNewCoordinate(reqs[r])
                        \/ k = 3 /\ Rejected(reqs[r]) }) = 1)
    /\ [][ \A e \in DOMAIN users' :
              AddressWritten(e)
                 => \E r \in Requests : CommitsAfterLookup(r, e) ]_vars

\* one edit has committed a new coordinate while another request waits for
\* the provider
C8_Witness ==
    \E r, w \in Requests :
       /\ reqs[r].pc = "done" /\ reqs[r].op = "edit"
       /\ CommittedNewCoordinate(reqs[r])
       /\ reqs[w].pc = "geocoding"

\* C9 (as claimed): a request that has started its lookup reaches its end,
\* whether or not the provider answers.
C9_LookupAlwaysEnds ==
    \A r \in Requests : (reqs[r].pc = "geocoding") ~> (reqs[r].pc = "done")

\* C10 (as claimed): when the requests served side by side have ended, every
\* stored coordinate is the one the provider gives for the stored address.
C10_ConcurrentEditsConsistent ==
    (\A r \in Requests : reqs[r].pc \in {"idle", "done"})
       => \A e \in DOMAIN users :
             Coordinate(users[e])
               = <<Num(WorldLat(StoredAddress(users[e]))),
                   Num(WorldLng(StoredAddress(users[e])))>>

=============================================================================
